---- MODULE Spec2Model ----
(***************************************************************************)
(* jz::digit_adaptor<T, RADIX> (src/digit_adaptor.hh): an integer viewed   *)
(* as a container of its RADIX digits.  The model keeps one backing        *)
(* integer `number`, one view over it (`digits`, fixed by the              *)
(* constructor) and the record `last` of the statement that has just run.  *)
(* Integers keep a width: T and its unsigned counterpart NCU have IntBits  *)
(* bits.  `narrow` tells whether T ranks below int (char, short), in which *)
(* case C++ promotes every operand to int before it computes, or not (int, *)
(* long), in which case the arithmetic is NCU's, modulo 2^IntBits.         *)
(* Three programs use the view: Spec takes accessors from operator[] and   *)
(* from begin() + k, Traversal walks one iterator `iter`, and Algorithms   *)
(* hands the iterators to std::sort and std::reverse.                      *)
(***************************************************************************)
EXTENDS Integers, Sequences, FiniteSets, TLC

VARIABLES
  radix,      \* template parameter RADIX
  isSigned,   \* T is a signed type
  narrow,     \* T ranks below int: operands are promoted to int
  explicit,   \* the view was built by digit_adaptor(T&, std::size_t)
  digits,     \* digit_adaptor::digits_
  number,     \* the backing integer, digit_adaptor::number_
  last,       \* the statement that has just run, with its operands
  ub,         \* the statement executed undefined behaviour (division by 0)
  iter        \* one iterator_ over the view: its Direction and its index_

vars == <<radix, isSigned, narrow, explicit, digits, number, last, ub, iter>>

----------------------------------------------------------------------------
(* Bounds of the model. *)

\* Width, in bits, of T and NCU.
IntBits == 6

\* Width, in bits, of std::size_t.
SizeBits == 12

\* Largest count given to the explicit-count constructor.
MaxDigits == 3

\* Written digit values range over -MaxDigitOver .. RADIX - 1 + MaxDigitOver.
MaxDigitOver == 1

\* Indices range from MaxIndexOver below 0 to MaxIndexOver above size().
MaxIndexOver == 1

\* The instantiations of RADIX (those of digit_adaptor_test.cc).
Radixes == {8, 10, 16}

----------------------------------------------------------------------------
(* The integer types. *)

TMod == 2 ^ IntBits

SizeMod == 2 ^ SizeBits

TMin == IF isSigned THEN -(TMod \div 2) ELSE 0

TMax == IF isSigned THEN (TMod \div 2) - 1 ELSE TMod - 1

TValues == TMin .. TMax

\* static_cast<NCU>(x)
ToU(x) == x % TMod

\* static_cast<NCT>(x), T(x): two's complement for a signed T
ToT(x) == LET m == x % TMod
          IN  IF isSigned /\ m >= TMod \div 2 THEN m - TMod ELSE m

\* conversion of an int to std::size_t
ToSizeT(x) == x % SizeMod

\* The value of an arithmetic expression over NCU operands: computed in int
\* when T is narrow (no wrap), in NCU otherwise (modulo 2^IntBits).
Arith(x) == IF narrow THEN x ELSE x % TMod

\* C++ integer division and remainder truncate towards zero (b >= 0 here).
\* A division by zero is undefined behaviour: where the build does not trap
\* it, the quotient is 0 (the outcome of a divide instruction that does not
\* fault).  No other outcome of the quotient shows in a digit that is
\* written, since the quotient is multiplied by the divisor, 0.
TruncDiv(a, b) ==
  IF b = 0 THEN 0
  ELSE IF a >= 0 THEN a \div b ELSE -((-a) \div b)

TruncMod(a, b) == a - b * TruncDiv(a, b)

Min(a, b) == IF a < b THEN a ELSE b

Max(a, b) == IF a > b THEN a ELSE b

----------------------------------------------------------------------------
(* digit_adaptor's private helpers. *)

make_positive(value) ==
  LET u == ToU(value)
  IN  IF value < 0 THEN Arith(-u) ELSE u

RECURSIVE DigitLoop(_, _)
DigitLoop(u, d) ==
  LET d1 == d + 1
      u1 == TruncDiv(u, radix)
  IN  IF u1 > 0 THEN DigitLoop(u1, d1) ELSE d1

total_digits(n) == DigitLoop(make_positive(n), 0)

RECURSIVE ForwardLoop(_, _, _)
ForwardLoop(divisor, i, dg) ==
  IF i < dg THEN ForwardLoop(ToU(divisor * radix), i + 1, dg) ELSE divisor

\* A reverse loop that multiplies once more.
RECURSIVE ReverseLoopOnceMore(_, _, _)
ReverseLoopOnceMore(divisor, i, index) ==
  IF i # index + 1
    THEN ReverseLoopOnceMore(ToU(divisor * radix), i + 1, index)
    ELSE divisor

RECURSIVE ReverseLoop(_, _, _)
ReverseLoop(divisor, i, index) ==
  IF i # index THEN ReverseLoop(ToU(divisor * radix), i + 1, index) ELSE divisor

compute_divisor(dir, index0, dg) ==
  LET index == Max(Min(dg, index0), 0)
  IN  IF dir = "Forward"
        THEN ForwardLoop(1, index + 1, dg)
        ELSE ReverseLoop(1, 0, index)

\* A size() that counts the digits of the integer as it is now.
SizeRecounted == total_digits(number)

\* digit_adaptor::size()
Size == digits

\* digit_adaptor::operator[](int): the divisor of the accessor it returns
Subscript(index) == compute_divisor("Forward", ToSizeT(index), digits)

----------------------------------------------------------------------------
(* The accessors: mutable_reference_ and const_reference_. *)

\* mutable_reference_::operator T
ReadDigit(n, divisor) ==
  ToT(TruncMod(TruncDiv(make_positive(n), divisor), radix))

\* const_reference_::operator T
ConstReadDigit(n, divisor) ==
  ToT(TruncMod(TruncDiv(make_positive(n), divisor), radix))

\* A write that adds the new digit without taking the old one out.
WriteDigitKeepsOld(n, divisor, digit) ==
  LET is_negative == n < 0
      temp0 == make_positive(n)
      temp2 == Arith(temp0 + Arith(TruncMod(digit, radix) * divisor))
  IN  ToT(IF is_negative THEN Arith(-temp2) ELSE temp2)

\* mutable_reference_::operator=(const T&)
WriteDigit(n, divisor, digit) ==
  LET is_negative == n < 0
      temp0 == make_positive(n)
      temp1 == Arith(temp0
                 - Arith(TruncMod(TruncDiv(temp0, divisor), radix) * divisor))
      temp2 == Arith(temp1 + Arith(TruncMod(digit, radix) * divisor))
  IN  ToT(IF is_negative THEN Arith(-temp2) ELSE temp2)

----------------------------------------------------------------------------
(* The statements of a program that uses one view. *)

\* The record of a statement: its operands, the backing integer before it
\* ran and the value it returned.
Stmt(op, i, j, d, ret) ==
  [op |-> op, i |-> i, j |-> j, d |-> d, before |-> number, ret |-> ret]

NoStmt == [op |-> "none", i |-> 0, j |-> 0, d |-> 0, before |-> 0, ret |-> 0]

\* The indices, digit values and integers the statements are given.
IndexInputs == (-MaxIndexOver) .. (digits + MaxIndexOver)

DigitInputs == (-MaxDigitOver) .. (radix - 1 + MaxDigitOver)

ExternalInputs == {TMin, -1, 0, 1, TMax} \cap TValues

\* A statement that divides by the divisors given leaves `result` in the
\* backing integer and returns `ret`.  A division by zero is undefined
\* behaviour: the build traps before it stores anything, or goes on with the
\* quotient 0; the program is not followed further.
Run(op, i, j, d, divisors, result, ret) ==
  /\ IF 0 \in divisors
       THEN /\ ub' = TRUE
            /\ \/ number' = number /\ last' = Stmt(op, i, j, d, 0)
               \/ number' = result /\ last' = Stmt(op, i, j, d, ret)
       ELSE /\ ub' = FALSE
            /\ number' = result
            /\ last' = Stmt(op, i, j, d, ret)
  /\ UNCHANGED <<radix, isSigned, narrow, explicit, digits, iter>>

\* digit_adaptor(T&) and digit_adaptor(T&, std::size_t)
Construct ==
  /\ radix \in Radixes
  /\ isSigned \in BOOLEAN
  /\ narrow \in BOOLEAN
  /\ number \in TValues
  /\ explicit \in BOOLEAN
  /\ digits \in (IF explicit THEN 0 .. MaxDigits ELSE {total_digits(number)})
  /\ last = [op |-> "ctor", i |-> 0, j |-> 0, d |-> 0, before |-> number,
             ret |-> 0]
  /\ ub = FALSE

\* digit_adaptor::begin() and rbegin(): an iterator_ with index_ 0
begin(dir) == [dir |-> dir, index_ |-> 0]

\* A program that takes accessors from operator[] and from begin() + k.
Init ==
  /\ Construct
  /\ iter = begin("Forward")

\* T(view[i])
Read(i) ==
  LET w == Subscript(i)
  IN  Run("read", i, i, 0, {w}, number, ReadDigit(number, w))

\* T(const_reference(view[i]))
ConstRead(i) ==
  LET w == Subscript(i)
  IN  Run("cread", i, i, 0, {w}, number, ConstReadDigit(number, w))

\* view[i] = d
Assign(i, d) ==
  LET w == Subscript(i)
  IN  Run("write", i, i, d, {w}, WriteDigit(number, w, ToT(d)), 0)

\* view[i] = view[j]
AssignRef(i, j) ==
  LET wi == Subscript(i)
      wj == Subscript(j)
  IN  Run("assign", i, j, 0, {wi, wj},
          WriteDigit(number, wi, ReadDigit(number, wj)),
          ReadDigit(number, wj))

\* mutable_reference_::swap
SwapDigits(n, wi, wj) ==
  LET d1 == ReadDigit(n, wi)
      d2 == ReadDigit(n, wj)
  IN  WriteDigit(WriteDigit(n, wi, d2), wj, d1)

\* swap(view[i], view[j])
Swap(i, j) ==
  LET wi == Subscript(i)
      wj == Subscript(j)
  IN  Run("swap", i, j, 0, {wi, wj}, SwapDigits(number, wi, wj), 0)

\* mutable_reference_::operator++()
IncrementDigit(n, w) == WriteDigit(n, w, ToT(ReadDigit(n, w) + 1))

\* mutable_reference_::operator--()
DecrementDigit(n, w) == WriteDigit(n, w, ToT(ReadDigit(n, w) - 1))

\* ++view[i]
PreIncrement(i) ==
  LET w == Subscript(i)
  IN  Run("preinc", i, i, 0, {w}, IncrementDigit(number, w),
          ReadDigit(IncrementDigit(number, w), w))

\* --view[i]
PreDecrement(i) ==
  LET w == Subscript(i)
  IN  Run("predec", i, i, 0, {w}, DecrementDigit(number, w),
          ReadDigit(DecrementDigit(number, w), w))

\* view[i]++
PostIncrement(i) ==
  LET w == Subscript(i)
  IN  Run("postinc", i, i, 0, {w}, IncrementDigit(number, w),
          ReadDigit(number, w))

\* view[i]--
PostDecrement(i) ==
  LET w == Subscript(i)
  IN  Run("postdec", i, i, 0, {w}, DecrementDigit(number, w),
          ReadDigit(number, w))

\* x = v, by the owner of the backing integer
ExternalAssign(v) == Run("extern", 0, 0, v, {}, v, 0)

\* iterator_::operator+(int) on begin() or rbegin(), whose index_ is 0: the
\* index_ of the iterator it returns.  rhs is converted to std::size_t.
IteratorPlus(index_, rhs) == Min(digits, Max(0, ToSizeT(index_ + rhs)))

\* An operator* that takes the loop of the other direction.
DereferenceOtherWay(dir, index_) ==
  compute_divisor(IF dir = "Forward" THEN "Reverse" ELSE "Forward",
                  index_, digits)

\* iterator_::operator*: the divisor of the accessor it returns
Dereference(dir, index_) == compute_divisor(dir, index_, digits)

\* T(*(view.begin() + k)) and T(*(view.rbegin() + k))
IteratorRead(dir, k) ==
  LET w == Dereference(dir, IteratorPlus(0, k))
  IN  Run("itread", k, k, 0, {w}, number, ReadDigit(number, w))

\* The digit values written through an iterator.
IteratorDigitInputs == {0, 1, radix - 1}

Directions == {"Forward", "Reverse"}

\* *(view.begin() + k) = d and *(view.rbegin() + k) = d
IteratorWrite(dir, k, d) ==
  LET w == Dereference(dir, IteratorPlus(0, k))
  IN  Run("itwrite", k, k, d, {w}, WriteDigit(number, w, ToT(d)), 0)

\* The end of the full expression: the accessors it made are destroyed.
EndOfStatement ==
  /\ last.op # "none"
  /\ ~ub
  /\ last' = NoStmt
  /\ UNCHANGED <<radix, isSigned, narrow, explicit, digits, number, ub, iter>>

\* Between two statements and still running.
Idle == last.op = "none" /\ ~ub

Next ==
  \/ Idle /\ \E i \in IndexInputs : Read(i)
  \/ Idle /\ \E i \in IndexInputs : ConstRead(i)
  \/ Idle /\ \E i \in IndexInputs, d \in DigitInputs : Assign(i, d)
  \/ Idle /\ \E i \in IndexInputs, j \in IndexInputs : AssignRef(i, j)
  \/ Idle /\ \E i \in IndexInputs, j \in IndexInputs : Swap(i, j)
  \/ Idle /\ \E i \in IndexInputs : PreIncrement(i)
  \/ Idle /\ \E i \in IndexInputs : PreDecrement(i)
  \/ Idle /\ \E i \in IndexInputs : PostIncrement(i)
  \/ Idle /\ \E i \in IndexInputs : PostDecrement(i)
  \/ Idle /\ \E v \in ExternalInputs : ExternalAssign(v)
  \/ Idle /\ \E dir \in Directions, k \in IndexInputs : IteratorRead(dir, k)
  \/ Idle /\ \E dir \in Directions, k \in IndexInputs,
                 d \in IteratorDigitInputs : IteratorWrite(dir, k, d)
  \/ EndOfStatement

Spec == Init /\ [][Next]_vars

----------------------------------------------------------------------------
(* A program that walks one iterator_ over the view.  iterator_<Forward>   *)
(* and iterator_<Reverse>, for T and for const T, are one template: the    *)
(* position arithmetic is the same code, the direction only selects the    *)
(* loop of compute_divisor and constness only the type of the accessor.    *)

\* std::ptrdiff_t(x)
ToPtrdiff(x) ==
  LET m == x % SizeMod
  IN  IF m >= SizeMod \div 2 THEN m - SizeMod ELSE m

\* An operator++ that does not check for the sentinel.
IteratorIncrementUnchecked(index_) == index_ + 1

\* iterator_::operator++(): the index_ it leaves
IteratorIncrement(index_) == IF index_ < digits THEN index_ + 1 ELSE index_

\* iterator_::operator--(): the index_ it leaves
IteratorDecrement(index_) == IF index_ > 0 THEN index_ - 1 ELSE index_

\* iterator_::operator-(int): the index_ of the iterator it returns
IteratorMinus(index_, rhs) == Min(digits, Max(0, ToSizeT(index_ - rhs)))

\* iterator_::operator+=(int): the index_ it leaves
IteratorPlusAssign(index_, rhs) == Min(digits, Max(0, ToSizeT(index_ + rhs)))

\* iterator_::operator-=(int): the index_ it leaves
IteratorMinusAssign(index_, rhs) == Min(digits, Max(0, ToSizeT(index_ - rhs)))

\* iterator_::operator-(const iterator_&)
IteratorDistance(lhs, rhs) == ToPtrdiff(ToSizeT(lhs - rhs))

\* digit_adaptor::end() and rend(): an iterator_ with index_ digits_
end(dir) == [dir |-> dir, index_ |-> digits]

\* The offsets given to +, -, += and -=.
OffsetInputs == (-(digits + MaxIndexOver)) .. (digits + MaxIndexOver)

\* A statement that moves `iter` to index: last.i is the position before,
\* last.j the position after, last.d the offset and last.ret the position
\* of the iterator the expression returns.
Move(op, k, index, ret) ==
  /\ iter' = [iter EXCEPT !.index_ = index]
  /\ last' = Stmt(op, iter.index_, index, k, ret)
  /\ UNCHANGED <<radix, isSigned, narrow, explicit, digits, number, ub>>

\* ++it
IterPreIncrement ==
  Move("++it", 0, IteratorIncrement(iter.index_),
       IteratorIncrement(iter.index_))

\* it++
IterPostIncrement ==
  Move("it++", 0, IteratorIncrement(iter.index_), iter.index_)

\* --it
IterPreDecrement ==
  Move("--it", 0, IteratorDecrement(iter.index_),
       IteratorDecrement(iter.index_))

\* it--
IterPostDecrement ==
  Move("it--", 0, IteratorDecrement(iter.index_), iter.index_)

\* it = it + k
IterPlus(k) ==
  Move("it+k", k, IteratorPlus(iter.index_, k), IteratorPlus(iter.index_, k))

\* it = it - k
IterMinus(k) ==
  Move("it-k", k, IteratorMinus(iter.index_, k),
       IteratorMinus(iter.index_, k))

\* it += k
IterPlusAssign(k) ==
  Move("it+=k", k, IteratorPlusAssign(iter.index_, k),
       IteratorPlusAssign(iter.index_, k))

\* it -= k
IterMinusAssign(k) ==
  Move("it-=k", k, IteratorMinusAssign(iter.index_, k),
       IteratorMinusAssign(iter.index_, k))

\* view.end() - it, resp. view.rend() - it
IterDistanceToEnd ==
  /\ last' = Stmt("end-it", iter.index_, iter.index_, 0,
                  IteratorDistance(end(iter.dir).index_, iter.index_))
  /\ UNCHANGED <<radix, isSigned, narrow, explicit, digits, number, ub, iter>>

\* it - view.begin(), resp. it - view.rbegin()
IterDistanceFromBegin ==
  /\ last' = Stmt("it-begin", iter.index_, iter.index_, 0,
                  IteratorDistance(iter.index_, begin(iter.dir).index_))
  /\ UNCHANGED <<radix, isSigned, narrow, explicit, digits, number, ub, iter>>

\* T(*it)
IterRead ==
  LET w == Dereference(iter.dir, iter.index_)
  IN  Run("*it", iter.index_, iter.index_, 0, {w}, number,
          ReadDigit(number, w))

\* T(*cit), cit a const iterator at the position of it
IterConstRead ==
  LET w == Dereference(iter.dir, iter.index_)
  IN  Run("*cit", iter.index_, iter.index_, 0, {w}, number,
          ConstReadDigit(number, w))

\* *it = d
IterWrite(d) ==
  LET w == Dereference(iter.dir, iter.index_)
  IN  Run("*it=", iter.index_, iter.index_, d, {w},
          WriteDigit(number, w, ToT(d)), 0)

TraversalInit ==
  /\ Construct
  /\ \E dir \in Directions : iter = begin(dir)

TraversalNext ==
  \/ Idle /\ IterPreIncrement
  \/ Idle /\ IterPostIncrement
  \/ Idle /\ IterPreDecrement
  \/ Idle /\ IterPostDecrement
  \/ Idle /\ \E k \in OffsetInputs : IterPlus(k)
  \/ Idle /\ \E k \in OffsetInputs : IterMinus(k)
  \/ Idle /\ \E k \in OffsetInputs : IterPlusAssign(k)
  \/ Idle /\ \E k \in OffsetInputs : IterMinusAssign(k)
  \/ Idle /\ IterDistanceToEnd
  \/ Idle /\ IterDistanceFromBegin
  \/ Idle /\ IterRead
  \/ Idle /\ IterConstRead
  \/ Idle /\ \E d \in IteratorDigitInputs : IterWrite(d)
  \/ EndOfStatement

Traversal == TraversalInit /\ [][TraversalNext]_vars

----------------------------------------------------------------------------
(* A program that hands the view's iterators to std::sort and              *)
(* std::reverse, as digit_adaptor_test.cc does.  The algorithms reach the  *)
(* digits only through iterator_ and the accessors.  On a range of at most *)
(* 16 elements std::sort is an insertion sort: for each i from first + 1,  *)
(* if *i < *first it saves *i, moves [first, i) one place up and stores    *)
(* the saved value at first; otherwise it moves the elements greater than  *)
(* the saved *i one place up, walking down with --, and stores it in the   *)
(* gap.  std::reverse swaps *first and *--last while first < last.         *)

\* What an algorithm leaves: the backing integer, and whether it hangs.
Done(n) == [n |-> n, hang |-> FALSE]

Hang(n) == [n |-> n, hang |-> TRUE]

\* std::move_backward(first, first + k, first + k + 1):
\* *(first + j) = *(first + j - 1) for j = k down to 1
RECURSIVE MoveBackward(_, _, _)
MoveBackward(n, dir, k) ==
  IF k = 0 THEN n
  ELSE MoveBackward(WriteDigit(n, Dereference(dir, k),
                               ReadDigit(n, Dereference(dir, k - 1))),
                    dir, k - 1)

\* The loop that moves the elements greater than val one place up, the gap
\* being at position lst.  The loop has no test for the start of the range:
\* -- at position 0 stays there, so it goes round for ever when val is
\* smaller than the element at position 0.
RECURSIVE LinearInsert(_, _, _, _)
LinearInsert(n, dir, val, lst) ==
  LET next == IteratorDecrement(lst)
      elem == ReadDigit(n, Dereference(dir, next))
  IN  IF val < elem
        THEN IF next = lst
               THEN Hang(n)
               ELSE LinearInsert(WriteDigit(n, Dereference(dir, lst), elem),
                                 dir, val, next)
        ELSE Done(WriteDigit(n, Dereference(dir, lst), val))

\* One round of the insertion sort, for the element at position i.
InsertAt(n, dir, i) ==
  LET val == ReadDigit(n, Dereference(dir, i))
  IN  IF val < ReadDigit(n, Dereference(dir, 0))
        THEN Done(WriteDigit(MoveBackward(n, dir, i), Dereference(dir, 0),
                             val))
        ELSE LinearInsert(n, dir, val, i)

RECURSIVE InsertionSort(_, _, _)
InsertionSort(n, dir, i) ==
  IF i >= digits THEN Done(n)
  ELSE LET r == InsertAt(n, dir, i)
       IN  IF r.hang THEN r ELSE InsertionSort(r.n, dir, i + 1)

\* std::reverse: swap(*first, *lst) for first = 0, 1, ... and
\* lst = count - 1, count - 2, ... while first < lst
RECURSIVE ReverseRange(_, _, _, _)
ReverseRange(n, dir, first, lst) ==
  IF first < lst
    THEN ReverseRange(SwapDigits(n, Dereference(dir, first),
                                 Dereference(dir, lst)),
                      dir, first + 1, lst - 1)
    ELSE n

\* The divisors of the accessors an algorithm over the whole range uses:
\* all of them, when the range has two elements or more.
RangeDivisors(dir) ==
  IF digits >= 2 THEN {Dereference(dir, p) : p \in 0 .. (digits - 1)} ELSE {}

\* An algorithm over begin()..end() or rbegin()..rend() has run; last.i
\* tells the direction (0 forward, 1 reverse) and last.ret whether it hangs.
RunAlgorithm(op, dir, r) ==
  Run(op, IF dir = "Forward" THEN 0 ELSE 1, 0, 0, RangeDivisors(dir), r.n,
      IF r.hang THEN 1 ELSE 0)

\* std::sort(view.begin(), view.end()), std::sort(view.rbegin(), view.rend())
Sort(dir) == RunAlgorithm("sort", dir, InsertionSort(number, dir, 1))

\* std::reverse(view.begin(), view.end()), resp. (view.rbegin(), view.rend())
Reverse(dir) ==
  RunAlgorithm("reverse", dir, Done(ReverseRange(number, dir, 0, digits - 1)))

AlgorithmsNext ==
  \/ Idle /\ \E dir \in Directions : Sort(dir)
  \/ Idle /\ \E dir \in Directions : Reverse(dir)
  \/ Idle /\ \E v \in ExternalInputs : ExternalAssign(v)
  \/ EndOfStatement

Algorithms == Init /\ [][AlgorithmsNext]_vars

----------------------------------------------------------------------------
(* The reference the properties are stated against: the digits of the      *)
(* mathematical magnitude |number|, whatever the width of T.               *)

Abs(x) == IF x < 0 THEN -x ELSE x

\* The indices of the digits of the view.
ValidIndexes == 0 .. (Size - 1)

\* The weight radix^(size-1-i) of index i, as a mathematical integer.
RefWeight(i) == radix ^ (Size - 1 - i)

\* The digit of |n| at index i.
RefDigit(n, i) == (Abs(n) \div RefWeight(i)) % radix

\* The smallest count k with radix^k > m; 1 for m = 0.
NaturalDigits(m) ==
  IF m = 0 THEN 1
  ELSE CHOOSE k \in 1 .. (IntBits + 1) :
         radix ^ k > m /\ radix ^ (k - 1) <= m

\* Sum of digit[i] * radix^(size-1-i) over the indices from i on, the digits
\* being those the view reads.
RECURSIVE DigitSum(_)
DigitSum(i) ==
  IF i >= Size THEN 0
  ELSE ReadDigit(number, Subscript(i)) * RefWeight(i) + DigitSum(i + 1)

\* T holds the magnitude m under the sign of n.
Fits(m, n) == IF n < 0 THEN m <= -TMin ELSE m <= TMax

\* No weight of the view wraps in NCU: radix^(size-1) < 2^IntBits.
WeightsExact == Size >= 1 /\ radix ^ (Size - 1) < TMod

\* |before| with the digit at index i replaced by d.
Replaced(n, i, d) == Abs(n) - RefDigit(n, i) * RefWeight(i) + d * RefWeight(i)

\* The statement that has just run wrote the digit d, in [0, radix-1], at a
\* valid index of a view whose weights are exact, and T holds the result.
PlainWrite ==
  /\ last.op = "write"
  /\ ~ub
  /\ WeightsExact
  /\ last.i \in ValidIndexes
  /\ last.d \in 0 .. (radix - 1)
  /\ Fits(Replaced(last.before, last.i, last.d), last.before)

----------------------------------------------------------------------------
(* The properties. *)

\* C1 (digit-count law): a view built without an explicit count has
\* size() = 1 for the value 0 and otherwise the smallest k with
\* radix^k > |v|, for every value of every integer type.
DigitCountLaw ==
  (last.op = "ctor" /\ ~explicit) => Size = NaturalDigits(Abs(number))

\* The digit-count law on the types where make_positive returns the
\* magnitude: T of rank int or above, or a value that is not negative.
DigitCountLawIntRank ==
  (last.op = "ctor" /\ ~explicit /\ (~narrow \/ number >= 0))
    => Size = NaturalDigits(Abs(number))

\* C2 (reconstruction law): the digits of a view with auto-derived count,
\* read most significant first, sum to |v| with the weights
\* radix^(size-1-i), and recombined with the sign of v give v.
ReconstructionLaw ==
  (last.op = "ctor" /\ ~explicit)
    => /\ DigitSum(0) = Abs(number)
       /\ (IF number < 0 THEN -DigitSum(0) ELSE DigitSum(0)) = number

\* The reconstruction law on the types where make_positive returns the
\* magnitude.
ReconstructionLawIntRank ==
  (last.op = "ctor" /\ ~explicit /\ (~narrow \/ number >= 0))
    => /\ DigitSum(0) = Abs(number)
       /\ (IF number < 0 THEN -DigitSum(0) ELSE DigitSum(0)) = number

\* C3 (read against the reference): a read through a mutable or read-only
\* accessor of weight w returns (|N| / w) mod radix, computed with the
\* mathematical magnitude, a value in [0, radix-1] that is the same for N
\* and -N.
ReadLaw ==
  (last.op \in {"read", "cread"} /\ ~ub)
    => LET w == Subscript(last.i)
       IN  /\ last.ret = (Abs(number) \div w) % radix
           /\ last.ret \in 0 .. (radix - 1)
           /\ (-number \in TValues => ReadDigit(-number, w) = last.ret)

\* The read law on the types where make_positive returns the magnitude.
ReadLawIntRank ==
  (last.op \in {"read", "cread"} /\ ~ub /\ (~narrow \/ number >= 0))
    => LET w == Subscript(last.i)
       IN  /\ last.ret = (Abs(number) \div w) % radix
           /\ last.ret \in 0 .. (radix - 1)
           /\ (-number \in TValues /\ ~narrow
                 => ReadDigit(-number, w) = last.ret)

\* C4 (write-isolation law): after view[i] = d, with i in [0, size()) and d
\* in [0, radix-1], index i reads d and every other index reads what it read
\* before.  Stated for the writes whose result T can hold.
WriteIsolationLaw ==
  PlainWrite
    => /\ ReadDigit(number, Subscript(last.i)) = last.d
       /\ \A j \in ValidIndexes \ {last.i} :
            ReadDigit(number, Subscript(j))
              = ReadDigit(last.before, Subscript(j))

\* Does not hold: the write-isolation law without the condition on the
\* result.  A digit whose weight takes the magnitude beyond T's range is not
\* read back.
WriteIsolationLawAnyResult ==
  (/\ last.op = "write"
   /\ ~ub
   /\ ~narrow
   /\ WeightsExact
   /\ last.i \in ValidIndexes
   /\ last.d \in 0 .. (radix - 1))
    => ReadDigit(number, Subscript(last.i)) = last.d

\* The write-isolation law on the types where make_positive returns the
\* magnitude.
WriteIsolationLawIntRank ==
  (PlainWrite /\ (~narrow \/ last.before >= 0))
    => /\ ReadDigit(number, Subscript(last.i)) = last.d
       /\ \A j \in ValidIndexes \ {last.i} :
            ReadDigit(number, Subscript(j))
              = ReadDigit(last.before, Subscript(j))

\* The statement that has just run wrote a digit value outside [0, radix-1]
\* at a valid index of a view whose weights are exact, on a type or a value
\* for which make_positive returns the magnitude, and T holds the integer
\* with d mod radix at that index.
OutOfRangeWrite ==
  /\ last.op = "write"
  /\ ~ub
  /\ WeightsExact
  /\ last.i \in ValidIndexes
  /\ last.d \notin 0 .. (radix - 1)
  /\ (~narrow \/ last.before >= 0)
  /\ Fits(Replaced(last.before, last.i, last.d % radix), last.before)

\* C5 (out-of-range digit): a write of d outside [0, radix-1], negative or
\* >= radix, is reduced modulo radix: index i then reads d mod radix, in
\* [0, radix-1], and no other digit changes.
OutOfRangeDigitLaw ==
  OutOfRangeWrite
    => /\ ReadDigit(number, Subscript(last.i)) = last.d % radix
       /\ \A j \in ValidIndexes \ {last.i} :
            ReadDigit(number, Subscript(j))
              = ReadDigit(last.before, Subscript(j))

\* The same for the digit values d >= radix alone.
OutOfRangeDigitLawAbove ==
  (OutOfRangeWrite /\ last.d >= radix)
    => /\ ReadDigit(number, Subscript(last.i)) = last.d % radix
       /\ \A j \in ValidIndexes \ {last.i} :
            ReadDigit(number, Subscript(j))
              = ReadDigit(last.before, Subscript(j))

\* C6 (sign-preservation law): a digit write on a negative integer that
\* leaves the magnitude nonzero leaves the integer negative with exactly the
\* written magnitude; one that zeroes the magnitude leaves 0; a non-negative
\* integer does not become negative.  Stated for the writes whose result T
\* can hold.
SignPreservationLaw ==
  PlainWrite
    => LET m == Replaced(last.before, last.i, last.d)
       IN  /\ (last.before < 0 /\ m # 0) => number = -m
           /\ (last.before < 0 /\ m = 0) => number = 0
           /\ last.before >= 0 => number >= 0

\* The sign-preservation law on the types where make_positive returns the
\* magnitude.
SignPreservationLawIntRank ==
  (PlainWrite /\ (~narrow \/ last.before >= 0))
    => LET m == Replaced(last.before, last.i, last.d)
       IN  /\ (last.before < 0 /\ m # 0) => number = -m
           /\ (last.before < 0 /\ m = 0) => number = 0
           /\ last.before >= 0 => number = m

\* Does not hold: a non-negative integer does not become negative through a
\* digit write, whatever the result.  A magnitude beyond T's range wraps to a
\* negative integer.
NeverTurnsNegative ==
  (/\ last.op = "write"
   /\ ~ub
   /\ ~narrow
   /\ WeightsExact
   /\ last.i \in ValidIndexes
   /\ last.d \in 0 .. (radix - 1)
   /\ last.before >= 0)
    => number >= 0

\* The statement that has just run is view[i] = view[i] at a valid index.
RoundTrip ==
  /\ last.op = "assign"
  /\ last.i = last.j
  /\ last.i \in ValidIndexes

PlainSwap ==
  /\ last.op = "swap"
  /\ ~ub
  /\ WeightsExact
  /\ last.i \in ValidIndexes
  /\ last.j \in ValidIndexes
  /\ LET a  == RefDigit(last.before, last.i)
         b  == RefDigit(last.before, last.j)
         m1 == Abs(last.before) + (b - a) * RefWeight(last.i)
         m2 == IF last.i = last.j THEN Abs(last.before)
               ELSE m1 + (a - b) * RefWeight(last.j)
         m3 == m2 + (a - b) * RefWeight(last.i)
     IN  \A m \in {m1, m2, m3} : Fits(m, last.before) /\ m # 0

\* C8 (swap): swap(view[i], view[j]) exchanges the two digits: afterwards i
\* reads the old digit of j, j the old digit of i, the other digits and the
\* sign are unchanged; swapping the same pair again, or a position with
\* itself, restores the integer.  Stated for the swaps whose result T can
\* hold.
SwapLaw ==
  PlainSwap
    => LET wi == Subscript(last.i)
           wj == Subscript(last.j)
       IN  /\ ReadDigit(number, wi) = ReadDigit(last.before, wj)
           /\ ReadDigit(number, wj) = ReadDigit(last.before, wi)
           /\ \A k \in ValidIndexes \ {last.i, last.j} :
                ReadDigit(number, Subscript(k))
                  = ReadDigit(last.before, Subscript(k))
           /\ (number < 0) = (last.before < 0)
           /\ SwapDigits(number, wi, wj) = last.before
           /\ last.i = last.j => number = last.before

\* Does not hold: a swap whose first write zeroes the magnitude of a negative
\* integer loses the sign (there is no negative zero), also on the types
\* where make_positive returns the magnitude.
SwapKeepsSignThroughZero ==
  (/\ last.op = "swap"
   /\ ~ub
   /\ ~narrow
   /\ WeightsExact
   /\ last.i \in ValidIndexes
   /\ last.j \in ValidIndexes
   /\ Fits(Abs(last.before), last.before)
   /\ Abs(last.before) < TMax \div radix)
    => (number < 0) = (last.before < 0)

\* The swap law on the types where make_positive returns the magnitude.
SwapLawIntRank ==
  (PlainSwap /\ (~narrow \/ last.before >= 0))
    => LET wi == Subscript(last.i)
           wj == Subscript(last.j)
       IN  /\ ReadDigit(number, wi) = ReadDigit(last.before, wj)
           /\ ReadDigit(number, wj) = ReadDigit(last.before, wi)
           /\ \A k \in ValidIndexes \ {last.i, last.j} :
                ReadDigit(number, Subscript(k))
                  = ReadDigit(last.before, Subscript(k))
           /\ (number < 0) = (last.before < 0)
           /\ SwapDigits(number, wi, wj) = last.before
           /\ last.i = last.j => number = last.before

\* C9 (size() is fixed): no statement changes what size() returns, whether
\* it writes a digit, swaps, increments, decrements, goes through an
\* iterator or reassigns the backing integer.
SizeNeverChanges == [][Size' = Size]_vars

\* A digit write has left an integer whose magnitude needs fewer digits than
\* the count derived at construction.
SizeWitness ==
  /\ last.op = "write"
  /\ ~explicit
  /\ ~ub
  /\ NaturalDigits(Abs(number)) < Size

\* An outside reassignment has left an integer whose magnitude needs more
\* digits than the count derived at construction.
SizeWitnessMoreDigits ==
  /\ last.op = "extern"
  /\ ~explicit
  /\ NaturalDigits(Abs(number)) > Size

\* i clamped into [0, count]
Clamped(i) == Max(0, Min(i, Size))

\* C10 (index clamping): view[i] behaves as view[c], c being i clamped into
\* [0, count]: an index below 0 is treated as 0 and an index above count as
\* count.
IndexClampLaw ==
  (last.op = "read" /\ ~ub /\ Subscript(Clamped(last.i)) # 0)
    => last.ret = ReadDigit(number, Subscript(Clamped(last.i)))

\* The clamping law for the indices i >= 0 alone.
IndexClampLawFromZero ==
  (last.op = "read" /\ last.i >= 0)
    => Subscript(last.i) = Subscript(Clamped(last.i))

\* An index below 0 is treated as count, the sentinel.
NegativeIndexIsSentinel ==
  (last.op = "read" /\ last.i < 0) => Subscript(last.i) = Subscript(Size)

----------------------------------------------------------------------------
(* The iterators. *)

\* The statements that move the iterator.
StepOps == {"++it", "it++", "--it", "it--"}

PlusOps == {"it+k", "it+=k"}

MinusOps == {"it-k", "it-=k"}

\* C11: whatever sequence of ++, --, post-++, post---, + k, - k, += k and
\* -= k has run, with k positive, zero or negative, the position of the
\* iterator (and of the iterator an expression returns) is in [0, count];
\* ++ at position count and -- at position 0 leave the position unchanged.
TraversalPositionInvariant ==
  /\ iter.index_ \in 0 .. digits
  /\ last.op \in StepOps \cup PlusOps \cup MinusOps
       => /\ last.j \in 0 .. digits
          /\ last.ret \in 0 .. digits
          /\ iter.index_ = last.j
  /\ (last.op \in {"++it", "it++"} /\ last.i = digits) => last.j = digits
  /\ (last.op \in {"--it", "it--"} /\ last.i = 0) => last.j = 0

\* ++ has run at the sentinel of a reverse iterator over two digits or more.
TraversalPositionWitness ==
  /\ last.op = "++it"
  /\ last.i = digits
  /\ digits >= 2
  /\ iter.dir = "Reverse"

\* An offset below the start has been applied and left a position in range.
TraversalPositionWitnessUndershoot ==
  /\ last.op \in PlusOps
  /\ last.i + last.d < 0
  /\ digits >= 2

\* The position an offset arithmetic without wraparound lands on.
Saturated(p) == Min(digits, Max(0, p))

\* C12: from position p, it + k and it += k land on min(count, max(0, p + k))
\* and it - k and it -= k on min(count, max(0, p - k)), p + k and p - k
\* taken as mathematical integers.
SaturatingOffsetLaw ==
  /\ last.op \in PlusOps => last.j = Saturated(last.i + last.d)
  /\ last.op \in MinusOps => last.j = Saturated(last.i - last.d)

\* The same, for offsets that do not undershoot the start.
SaturatingOffsetLawFromZero ==
  /\ (last.op \in PlusOps /\ last.i + last.d >= 0)
       => last.j = Saturated(last.i + last.d)
  /\ (last.op \in MinusOps /\ last.i - last.d >= 0)
       => last.j = Saturated(last.i - last.d)

\* An offset that undershoots the start lands on the sentinel count.
UndershootIsSentinel ==
  /\ (last.op \in PlusOps /\ last.i + last.d < 0) => last.j = digits
  /\ (last.op \in MinusOps /\ last.i - last.d < 0) => last.j = digits

\* The position after n increments, resp. n decrements, from index_.
RECURSIVE Forth(_, _)
Forth(index_, n) ==
  IF n = 0 THEN index_ ELSE Forth(IteratorIncrement(index_), n - 1)

RECURSIVE Back(_, _)
Back(index_, n) ==
  IF n = 0 THEN index_ ELSE Back(IteratorDecrement(index_), n - 1)

\* ++ and -- move by one position inside the range.
StepsByOne ==
  /\ (last.op \in {"++it", "it++"} /\ last.i < Size) => last.j = last.i + 1
  /\ (last.op \in {"--it", "it--"} /\ last.i > 0) => last.j = last.i - 1
  /\ last.op \in {"it++", "it--"} => last.ret = last.i
  /\ last.op \in {"++it", "--it"} => last.ret = last.j

\* Exactly size() increments lead from the start to the sentinel, and
\* size() decrements back to the start, where -- stops.
WalkReachesSentinel ==
  /\ \A n \in 0 .. Size : Forth(0, n) = n /\ Back(Size, n) = Size - n
  /\ Back(Size, Size + 1) = 0

\* C13: from begin() (or cbegin()) the k-th dereference, k in [0, size()),
\* reads the same digit as view[k], most-significant first; exactly size()
\* increments reach end(); end() - begin() equals size(); walking back with
\* -- from end() visits the digits in the opposite order and stops at
\* begin().
ForwardTraversalOrder ==
  iter.dir = "Forward"
    => /\ \A k \in ValidIndexes : Dereference("Forward", k) = Subscript(k)
       /\ WeightsExact
            => \A k \in ValidIndexes : Dereference("Forward", k) = RefWeight(k)
       /\ (last.op \in {"*it", "*cit"} /\ ~ub /\ last.i < Size)
            => last.ret = ReadDigit(number, Subscript(last.i))
       /\ StepsByOne
       /\ WalkReachesSentinel
       /\ (last.op = "end-it" /\ last.i = 0) => last.ret = Size
       /\ last.op = "it-begin" => last.ret = last.i

\* The last digit of a forward walk over two digits or more has been read,
\* and it is not the digit other positions hold.
ForwardTraversalWitness ==
  /\ iter.dir = "Forward"
  /\ last.op = "*it"
  /\ ~ub
  /\ Size >= 2
  /\ last.i = Size - 1
  /\ last.ret # 0
  /\ last.ret # ReadDigit(number, Subscript(0))

\* The counts the direction symmetry is checked for.
Counts == 0 .. (MaxDigits + 1)

\* C14: for every count and every i in [0, count) the weight of forward
\* position i is the weight of reverse position count-1-i, so the reverse
\* iterator at position p reads and writes the digit view[count-1-p];
\* rbegin() is at the least-significant digit and exactly size() increments
\* reach rend().
DirectionSymmetry ==
  /\ last.op = "ctor"
       => \A c \in Counts : \A i \in 0 .. (c - 1) :
            compute_divisor("Forward", i, c)
              = compute_divisor("Reverse", c - 1 - i, c)
  /\ iter.dir = "Reverse"
       => /\ \A p \in ValidIndexes :
               Dereference("Reverse", p) = Subscript(Size - 1 - p)
          /\ Dereference("Reverse", 0) = 1
          /\ (last.op \in {"*it", "*cit"} /\ ~ub /\ last.i < Size)
               => last.ret = ReadDigit(number, Subscript(Size - 1 - last.i))
          /\ (last.op = "*it=" /\ ~ub /\ last.i < Size)
               => number = WriteDigit(last.before, Subscript(Size - 1 - last.i),
                                      ToT(last.d))
          /\ StepsByOne
          /\ WalkReachesSentinel
          /\ (last.op = "end-it" /\ last.i = 0) => last.ret = Size

\* A digit has been written through a reverse iterator at the position of
\* the most-significant of three digits, and it changed the integer.
DirectionSymmetryWitness ==
  /\ iter.dir = "Reverse"
  /\ last.op = "*it="
  /\ ~ub
  /\ Size = 3
  /\ last.i = 2
  /\ number # last.before
  /\ Subscript(0) # Subscript(2)

----------------------------------------------------------------------------
(* Views with an explicit count. *)

\* The number of leading indices of the view: count minus the natural
\* digit count of |n|.
Leading(n) == Size - NaturalDigits(Abs(n))

\* The natural digit k of |n|, most-significant first.
NaturalDigit(n, k) ==
  (Abs(n) \div (radix ^ (NaturalDigits(Abs(n)) - 1 - k))) % radix

\* The view has an explicit count greater than the natural digit count of
\* n, and none of its weights wraps.
WiderCount(n) == explicit /\ WeightsExact /\ Leading(n) > 0

\* C15 (explicit wider count): in a view built with an explicit count c
\* greater than the natural digit count n of v, every index i < c - n reads
\* 0 and every index i >= c - n reads the natural digit i - (c - n); a
\* nonzero digit written at a leading index becomes that leading digit and
\* nothing else changes, which is the step by which writing d[0..c-1] into
\* 0 in any order builds the integer with these digits.  Stated for the
\* counts whose weights T's unsigned counterpart holds, and for the writes
\* whose result T holds.
ExplicitWiderCount ==
  /\ (last.op \in {"read", "cread"} /\ ~ub /\ WiderCount(number)
        /\ last.i \in ValidIndexes)
       => last.ret = (IF last.i < Leading(number) THEN 0
                      ELSE NaturalDigit(number, last.i - Leading(number)))
  /\ (PlainWrite /\ WiderCount(last.before)
        /\ last.i < Leading(last.before))
       => /\ Abs(number) = Abs(last.before) + last.d * RefWeight(last.i)
          /\ (number < 0) = (last.before < 0)

\* The same, apart from negative values of the types narrower than int.
ExplicitWiderCountIntRank ==
  /\ (last.op \in {"read", "cread"} /\ ~ub /\ WiderCount(number)
        /\ last.i \in ValidIndexes /\ (~narrow \/ number >= 0))
       => last.ret = (IF last.i < Leading(number) THEN 0
                      ELSE NaturalDigit(number, last.i - Leading(number)))
  /\ (PlainWrite /\ WiderCount(last.before)
        /\ last.i < Leading(last.before)
        /\ (~narrow \/ last.before >= 0))
       => /\ Abs(number) = Abs(last.before) + last.d * RefWeight(last.i)
          /\ (number < 0) = (last.before < 0)

\* Does not hold: leading indices read 0 whatever the count.  A count whose
\* leading weight wraps in NCU reads a digit of the wrapped weight.
ExplicitWiderCountAnyCount ==
  (last.op = "read" /\ ~ub /\ explicit /\ Leading(number) > 0
     /\ last.i \in 0 .. (Leading(number) - 1) /\ number >= 0)
    => last.ret = 0

----------------------------------------------------------------------------
(* Algorithms over the iterators. *)

\* The digit of the magnitude m at index i of the view.
DigitOf(m, i) == (m \div RefWeight(i)) % radix

\* The magnitudes m and k have the same digits, each as many times.
SameDigits(m, k) ==
  \A v \in 0 .. (radix - 1) :
    Cardinality({i \in ValidIndexes : DigitOf(m, i) = v})
      = Cardinality({i \in ValidIndexes : DigitOf(k, i) = v})

\* The digits of m do not decrease, resp. do not increase, from index 0 on.
NonDecreasing(m) ==
  \A i \in ValidIndexes : \A j \in ValidIndexes :
    i < j => DigitOf(m, i) <= DigitOf(m, j)

NonIncreasing(m) ==
  \A i \in ValidIndexes : \A j \in ValidIndexes :
    i < j => DigitOf(m, i) >= DigitOf(m, j)

\* The view shows the whole magnitude of n with exact weights.
ShowsAll(n) == WeightsExact /\ Abs(n) < radix ^ Size

\* The magnitudes a sort of the digits of n may leave, forward or reverse.
SortedMagnitudes(n, dir) ==
  {m \in 0 .. (TMod - 1) :
     /\ m < radix ^ Size
     /\ SameDigits(m, Abs(n))
     /\ IF dir = 0 THEN NonDecreasing(m) ELSE NonIncreasing(m)}

\* The largest magnitude size() digits taken among those of n make: the
\* largest digit of n at every index.
LargestOfDigits(n) ==
  LET top == CHOOSE v \in 0 .. (radix - 1) :
               /\ \E i \in ValidIndexes : DigitOf(Abs(n), i) = v
               /\ \A i \in ValidIndexes : DigitOf(Abs(n), i) <= v
  IN  top * ((radix ^ Size - 1) \div (radix - 1))

\* std::sort has run over a view that shows the whole magnitude, and T
\* holds every integer the sort passes through, a digit of the integer
\* being there twice while the sort moves it.
PlainSort ==
  /\ last.op = "sort"
  /\ ~ub
  /\ ShowsAll(last.before)
  /\ Fits(LargestOfDigits(last.before), last.before)

\* C16 (sorting through the view): std::sort over begin()..end() ends with
\* the digits non-decreasing from index 0 to size()-1, and over
\* rbegin()..rend() non-increasing; the digits are the same, each as many
\* times, and a negative integer with nonzero magnitude stays negative.
\* Stated for the views that show the whole magnitude and the integers
\* whose digits, in whatever arrangement, T holds.
SortLaw ==
  PlainSort
    => /\ last.ret = 0
       /\ Abs(number) \in SortedMagnitudes(last.before, last.i)
       /\ (last.before < 0) => (number < 0)

\* The same, apart from negative values of the types narrower than int.
SortLawIntRank ==
  (PlainSort /\ (~narrow \/ last.before >= 0))
    => /\ last.ret = 0
       /\ Abs(number) \in SortedMagnitudes(last.before, last.i)
       /\ (last.before < 0) => (number < 0)

\* Does not hold: the sort law for every integer whose sorted digits T
\* holds.  On its way the sort holds a digit twice, which T may not hold.
SortLawAnyIntermediate ==
  (/\ last.op = "sort"
   /\ ~ub
   /\ ~narrow
   /\ ShowsAll(last.before)
   /\ \A m \in SortedMagnitudes(last.before, last.i) : Fits(m, last.before))
    => Abs(number) \in SortedMagnitudes(last.before, last.i)

\* Does not hold: std::sort ends whatever the count.  With a count whose
\* leading weight wraps in NCU the loop that opens the gap goes on for ever.
SortTerminates ==
  (last.op = "sort" /\ ~ub /\ ~narrow) => last.ret = 0

\* The direction last.i stands for, and the other one.
DirectionOf(i) == IF i = 0 THEN "Forward" ELSE "Reverse"

OtherDirectionOf(i) == IF i = 0 THEN "Reverse" ELSE "Forward"

\* The magnitude m has the digits of k in the opposite order.
Reversed(m, k) ==
  \A i \in ValidIndexes : DigitOf(m, i) = DigitOf(k, Size - 1 - i)

\* std::reverse has run over a view that shows the whole magnitude, and T
\* holds every integer the swaps pass through.
PlainReverse ==
  /\ last.op = "reverse"
  /\ ~ub
  /\ ShowsAll(last.before)
  /\ Fits(LargestOfDigits(last.before), last.before)

\* C17 (reversal through the view): std::reverse over begin()..end() and
\* over rbegin()..rend() leave the same integer, whose digit at index i is
\* the digit that was at index size()-1-i, with the sign of before;
\* reversing twice restores the integer.  Stated for the views that show
\* the whole magnitude and the integers whose digits, in whatever
\* arrangement, T holds.
ReverseLaw ==
  PlainReverse
    => /\ Reversed(Abs(number), Abs(last.before))
       /\ (number < 0) = (last.before < 0)
       /\ number = ReverseRange(last.before, OtherDirectionOf(last.i), 0,
                                Size - 1)
       /\ ReverseRange(number, DirectionOf(last.i), 0, Size - 1)
            = last.before

\* The magnitude is reversed, apart from negative values of the types
\* narrower than int.
ReverseLawMagnitudeIntRank ==
  (PlainReverse /\ (~narrow \/ last.before >= 0))
    => Reversed(Abs(number), Abs(last.before))

\* The whole law holds for the integers that are not negative.
ReverseLawNonNegative ==
  (PlainReverse /\ last.before >= 0)
    => /\ Reversed(Abs(number), Abs(last.before))
       /\ number >= 0
       /\ number = ReverseRange(last.before, OtherDirectionOf(last.i), 0,
                                Size - 1)
       /\ ReverseRange(number, DirectionOf(last.i), 0, Size - 1)
            = last.before

\* Does not hold: apart from the narrow types, std::reverse keeps the sign.
\* A swap that writes 0 over the only nonzero digit leaves -0, which is 0.
ReverseKeepsSign ==
  (PlainReverse /\ ~narrow) => (number < 0) = (last.before < 0)

\* Does not hold: apart from the narrow types, both directions leave the
\* same integer.
ReverseSameBothWays ==
  (PlainReverse /\ ~narrow)
    => number = ReverseRange(last.before, OtherDirectionOf(last.i), 0,
                             Size - 1)

----------------------------------------------------------------------------
(* Increment and decrement of a digit. *)

IncrementOps == {"preinc", "postinc"}

DecrementOps == {"predec", "postdec"}

\* The digit an increment or a decrement of the digit d is to leave.
Stepped(op, d) ==
  IF op \in IncrementOps THEN (d + 1) % radix ELSE (d - 1) % radix

\* The statement that has just run incremented or decremented the digit at
\* a valid index of a view whose weights are exact, and T holds the
\* result.
PlainStep ==
  /\ last.op \in IncrementOps \cup DecrementOps
  /\ ~ub
  /\ WeightsExact
  /\ last.i \in ValidIndexes
  /\ Fits(Replaced(last.before, last.i,
                   Stepped(last.op, RefDigit(last.before, last.i))),
          last.before)

\* What the law says of the statement that has just run.
SteppedAsClaimed ==
  LET d == RefDigit(last.before, last.i)
  IN  /\ Abs(number) = Replaced(last.before, last.i, Stepped(last.op, d))
      /\ number # 0 => (number < 0) = (last.before < 0)
      /\ last.op \in {"postinc", "postdec"} => last.ret = d

\* C18 (increment and decrement of one digit): ++view[i] sets the digit d at
\* index i to (d + 1) mod radix and --view[i] to (d - 1) mod radix, no other
\* digit and not the sign changes, and view[i]++ and view[i]-- return d.
\* Stated for views with exact weights and for results T holds.
IncrementDecrementLaw == PlainStep => SteppedAsClaimed

\* The law holds for the increments, apart from negative values of the
\* types narrower than int.
IncrementLawIntRank ==
  (PlainStep /\ last.op \in IncrementOps /\ (~narrow \/ last.before >= 0))
    => SteppedAsClaimed

\* The law holds for the decrements of a digit above 0, with the same
\* exception.
DecrementLawAboveZero ==
  (PlainStep /\ last.op \in DecrementOps /\ (~narrow \/ last.before >= 0)
     /\ RefDigit(last.before, last.i) > 0)
    => SteppedAsClaimed

\* The post-forms return the digit read before the mutation.
PostFormsReturnPrior ==
  (last.op \in {"postinc", "postdec"} /\ ~ub)
    => last.ret = ReadDigit(last.before, Subscript(last.i))

\* Does not hold: on the types of rank int, a decrement of the digit 0
\* leaves radix - 1.
DecrementOfZeroWraps ==
  (PlainStep /\ last.op \in DecrementOps /\ ~narrow
     /\ RefDigit(last.before, last.i) = 0)
    => SteppedAsClaimed

----------------------------------------------------------------------------
(* The weights. *)

\* The weights of the accessors the view hands out: by operator[] at the
\* indices given, and by operator* at every position of both directions.
AccessorWeights ==
  {Subscript(i) : i \in IndexInputs}
    \cup {Dereference(dir, p) : dir \in Directions, p \in 0 .. digits}

\* The powers of radix, as NCU computes them.
PowersOfRadix == {ToU(radix ^ k) : k \in 0 .. (digits + 1)}

\* C19 (weight invariant and totality): for every view, every index and
\* every traversal position of either direction, the weight of the accessor
\* is a power of radix as NCU computes it and is never zero, so that no
\* read and no write divides by zero.
WeightInvariant ==
  /\ AccessorWeights \subseteq PowersOfRadix
  /\ 0 \notin AccessorWeights
  /\ ~ub

\* Every weight is a power of radix as NCU computes it.
WeightIsWrappedPower == AccessorWeights \subseteq PowersOfRadix

\* In a view with an auto-derived count every weight but that of the
\* reverse sentinel is the exact power, which is not zero.
AutoCountWeights ==
  ~explicit
    => /\ \A i \in IndexInputs : Subscript(i) # 0
       /\ \A p \in 0 .. digits : Dereference("Forward", p) # 0
       /\ \A p \in ValidIndexes : Dereference("Reverse", p) = radix ^ p

\* Does not hold: in a view with an auto-derived count no statement divides
\* by zero.  The weight of rend() is radix^size() in NCU, which is 0 for
\* the radixes 8 and 16 when the integer has as many digits as NCU holds.
AutoCountNeverDividesByZero == ~explicit => ~ub

----------------------------------------------------------------------------
(* The sentinel. *)

\* The iterator is at the sentinel of the direction given and the statement
\* that has just run dereferenced it without dividing by zero.
AtSentinel(dir, ops) ==
  /\ iter.dir = dir
  /\ last.op \in ops
  /\ last.i = Size
  /\ ~ub

\* What is said of the forward sentinel: view[i] for i >= count and *end()
\* have weight 1 and read and write the digit of view[count-1].
ForwardSentinelAliases ==
  Size >= 1
    => /\ \A i \in Size .. (Size + MaxIndexOver) :
            Subscript(i) = 1 /\ Subscript(i) = Subscript(Size - 1)
       /\ Dereference("Forward", Size) = 1
       /\ AtSentinel("Forward", {"*it", "*cit"})
            => last.ret = ReadDigit(number, Subscript(Size - 1))
       /\ AtSentinel("Forward", {"*it="})
            => number = WriteDigit(last.before, Subscript(Size - 1),
                                  ToT(last.d))

\* C20 (sentinel aliasing): in a view with count >= 1 the accessor at the
\* clamped sentinel index count, view[i] for any i >= count or *end(), has
\* weight 1 and reads and writes the least-significant digit exactly like
\* view[count-1], while *rend() has weight radix^count, one position above
\* the most-significant digit.
SentinelAliasing ==
  /\ ForwardSentinelAliases
  /\ Size >= 1 => Dereference("Reverse", Size) = radix ^ Size

\* The same, for the counts whose radix^count NCU holds.
SentinelAliasingExact ==
  /\ ForwardSentinelAliases
  /\ (Size >= 1 /\ radix ^ Size < TMod)
       => Dereference("Reverse", Size) = radix ^ Size

\* The weight of *rend() is radix^count as NCU computes it.
ReverseSentinelWraps == Dereference("Reverse", Size) = ToU(radix ^ Size)

\* A digit has been written through end() and it changed the integer.
ForwardSentinelWitness ==
  /\ AtSentinel("Forward", {"*it="})
  /\ Size >= 2
  /\ number # last.before

====
